---- MODULE Spec2Model ----
(***************************************************************************)
(* Log analysis engine of TraceCollector.py: failure detection and         *)
(* categorisation (FailureAnalyzer), chronological propagation mapping     *)
(* (FailurePropagationMonitor) and before/after patch comparison           *)
(* (PatchEvaluator).                                                       *)
(*                                                                         *)
(* A Python str is a sequence of one-character strings, so that lower(),   *)
(* strip(), the `in` substring test and the < comparison of timestamps are *)
(* computed character by character.  A log entry is a dict: a function     *)
(* whose domain is the set of keys that are present.                       *)
(***************************************************************************)
EXTENDS Integers, Sequences, FiniteSets, TLC

\* ------------------------------------------------------------------ str --
\* The lowercase letter of every uppercase letter
LowerCase ==
    [A |-> "a", B |-> "b", C |-> "c", D |-> "d", E |-> "e", F |-> "f",
     G |-> "g", H |-> "h", I |-> "i", J |-> "j", K |-> "k", L |-> "l",
     M |-> "m", N |-> "n", O |-> "o", P |-> "p", Q |-> "q", R |-> "r",
     S |-> "s", T |-> "t", U |-> "u", V |-> "v", W |-> "w", X |-> "x",
     Y |-> "y", Z |-> "z"]

Whitespace == {" ", "\t", "\n"}

\* str.lower() on one character
lower_char(c) == IF c \in DOMAIN LowerCase THEN LowerCase[c] ELSE c

\* str.lower()
lower(s) == [i \in DOMAIN s |-> lower_char(s[i])]

\* str.strip(): drop leading and trailing whitespace
strip(s) ==
    LET ink == {i \in DOMAIN s : s[i] \notin Whitespace}
    IN  IF ink = {} THEN <<>>
        ELSE LET lo == CHOOSE i \in ink : \A j \in ink : i <= j
                 hi == CHOOSE i \in ink : \A j \in ink : j <= i
             IN  SubSeq(s, lo, hi)

\* `kw in s` for two str
contains(s, kw) ==
    \E i \in 0..(Len(s) - Len(kw)) : \A j \in DOMAIN kw : s[i + j] = kw[j]

\* any(kw in s for kw in kws), kws a list of str
any_in(s, kws) == \E k \in DOMAIN kws : contains(s, kws[k])

\* Characters of the timestamps in ascending code point order
CodePoints == <<"-","0","1","2","3","4","5","6","7","8","9",":","T">>

ord(c) == CHOOSE i \in DOMAIN CodePoints : CodePoints[i] = c

\* s < t for two str (lexicographic by code point)
str_lt(s, t) ==
    \E n \in 0..Len(s) :
        /\ n <= Len(t)
        /\ \A j \in 1..n : s[j] = t[j]
        /\ \/ n = Len(s) /\ n < Len(t)
           \/ n < Len(s) /\ n < Len(t) /\ ord(s[n + 1]) < ord(t[n + 1])

\* ------------------------------------------------------------- keywords --
\* _group_failures_by_agent, line 73
GroupKeywords ==
    << <<"f","a","i","l">>,
       <<"e","r","r","o","r">>,
       <<"e","x","c","e","p","t","i","o","n">>,
       <<"c","r","a","s","h">>,
       <<"t","i","m","e","o","u","t">>,
       <<"h","a","l","l","u","c","i","n","a","t","i","o","n">> >>

\* _categorize_failure, line 56
SyntaxKeywords ==
    << <<"s","y","n","t","a","x"," ","e","r","r","o","r">>,
       <<"c","o","m","p","i","l","e"," ","e","r","r","o","r">>,
       <<"c","o","m","p","i","l","a","t","i","o","n"," ","f","a","i","l","e","d">>,
       <<"u","n","e","x","p","e","c","t","e","d"," ","i","n","d","e","n","t">>,
       <<"i","n","v","a","l","i","d"," ","s","y","n","t","a","x">> >>

\* _categorize_failure, line 58
LogicKeywords ==
    << <<"a","s","s","e","r","t","i","o","n"," ","f","a","i","l","e","d">>,
       <<"t","e","s","t"," ","f","a","i","l","e","d">>,
       <<"l","o","g","i","c"," ","e","r","r","o","r">>,
       <<"i","n","c","o","r","r","e","c","t"," ","r","e","s","u","l","t">>,
       <<"w","r","o","n","g"," ","o","u","t","p","u","t">>,
       <<"f","a","i","l","e","d"," ","t","e","s","t">>,
       <<"d","i","d"," ","n","o","t"," ","p","a","s","s">>,
       <<"m","i","s","m","a","t","c","h">> >>

\* _categorize_failure, line 60
TimeoutKeywords ==
    << <<"t","i","m","e","o","u","t">>,
       <<"t","i","m","e","d"," ","o","u","t">> >>

\* _categorize_failure, line 62
HallucinationKeywords ==
    << <<"h","a","l","l","u","c","i","n","a","t","i","o","n">>,
       <<"n","o","n","s","e","n","s","i","c","a","l">>,
       <<"m","a","d","e"," ","u","p">>,
       <<"f","a","b","r","i","c","a","t","e","d">>,
       <<"n","o","t"," ","i","n"," ","c","o","n","t","e","x","t">>,
       <<"i","r","r","e","l","e","v","a","n","t">>,
       <<"l","l","m"," ","e","r","r","o","r">>,
       <<"l","l","m"," ","m","i","s","t","a","k","e">> >>

\* map_failure_propagation, line 105
MapKeywords ==
    << <<"f","a","i","l">>,
       <<"e","r","r","o","r">>,
       <<"e","x","c","e","p","t","i","o","n">>,
       <<"c","r","a","s","h">> >>

\* show_failure_introducers, line 134
IntroducerKeywords ==
    << <<"f","a","i","l">>,
       <<"e","r","r","o","r">>,
       <<"e","x","c","e","p","t","i","o","n">>,
       <<"c","r","a","s","h">>,
       <<"t","i","m","e","o","u","t">>,
       <<"h","a","l","l","u","c","i","n","a","t","i","o","n">> >>

\* patch_propagation_analysis.extract_failures, line 155
ExtractKeywords ==
    << <<"f","a","i","l">>,
       <<"e","r","r","o","r">>,
       <<"e","x","c","e","p","t","i","o","n">>,
       <<"c","r","a","s","h">>,
       <<"t","i","m","e","o","u","t">>,
       <<"h","a","l","l","u","c","i","n","a","t","i","o","n">> >>

\* evaluate_patch_effectiveness.count_failures, line 193
CountKeywords ==
    << <<"f","a","i","l">>,
       <<"e","r","r","o","r">>,
       <<"e","x","c","e","p","t","i","o","n">>,
       <<"c","r","a","s","h">> >>

\* advanced_evaluation_report, lines 281 and 290
ReportKeywords ==
    << <<"f","a","i","l">>,
       <<"e","r","r","o","r">>,
       <<"e","x","c","e","p","t","i","o","n">>,
       <<"c","r","a","s","h">> >>

\* classify_failure_type, lines 231-247: the substrings tested, in order
TypeKeywords ==
    << <<"t","i","m","e","o","u","t">>,
       <<"c","o","n","n","e","c","t","i","o","n">>,
       <<"r","e","s","o","u","r","c","e">>,
       <<"m","e","m","o","r","y">>,
       <<"d","i","s","k">>,
       <<"e","x","c","e","p","t","i","o","n">>,
       <<"c","r","a","s","h">>,
       <<"f","a","i","l">>,
       <<"e","r","r","o","r">> >>

\* --------------------------------------------------------------- inputs --
m_ok == <<"o","k">>

m_crash == <<"c","r","a","s","h">>

m_timed_out == <<"t","i","m","e","d"," ","o","u","t">>

m_mismatch == <<"m","i","s","m","a","t","c","h">>

m_timeout == <<"t","i","m","e","o","u","t">>

m_Error_X_sp == <<" ","E","r","r","o","r"," ","X">>

m_syntax_assert == <<"S","y","n","t","a","x"," ","E","r","r","o","r"," ","i","n"," ","a","s","s","e","r","t","i","o","n"," ","f","a","i","l","e","d">>

m_hallucination == <<"h","a","l","l","u","c","i","n","a","t","i","o","n">>

m_Test_FAILED == <<"T","e","s","t"," ","F","A","I","L","E","D">>

m_Error_X == <<"E","r","r","o","r"," ","X">>

m_error_x == <<"e","r","r","o","r"," ","x">>

m_timeout_error == <<"t","i","m","e","o","u","t"," ","e","r","r","o","r">>

m_test_failed == <<"t","e","s","t"," ","f","a","i","l","e","d">>

m_test_failed_sp == <<" ","t","e","s","t"," ","f","a","i","l","e","d"," ">>

ts_10 == <<"1","0">>

ts_9 == <<"9">>

ts_T0 == <<"2","0","2","4","-","0","1","-","0","1","T","0","0",":","0","0",":","0","0">>

ts_T5 == <<"2","0","2","4","-","0","1","-","0","1","T","0","0",":","0","5",":","0","0">>

m_connection_failed == <<"c","o","n","n","e","c","t","i","o","n"," ","f","a","i","l","e","d">>

MaxAnalyzerLogs == 2

MaxLogs == 3

MaxBefore == 2

MaxAfter == 1

MaxCount == 9

MaxReportBefore == 2

MaxReportAfter == 1

MaxRecords == 2

MaxHandlers == 2

MaxClears == 1

\* Batches handed to FailureAnalyzer
AnalyzerEntries ==
    [agent_id : {"A", "B"}, timestamp : {ts_9},
     message : {m_ok, m_crash, m_timed_out, m_mismatch, m_timeout,
                m_syntax_assert, m_hallucination, m_Test_FAILED}]
    \cup {[timestamp |-> ts_9, message |-> m_crash],
          [agent_id |-> "A", timestamp |-> ts_9]}

\* Batches handed to FailurePropagationMonitor; "10" < "9" as strings
MonitorEntries ==
    [agent_id : {"A", "B"}, timestamp : {ts_10, ts_9},
     message : {m_timeout, m_Error_X}]
    \cup {[agent_id |-> "A", timestamp |-> ts_9, message |-> m_Error_X_sp],
          [timestamp |-> ts_9, message |-> m_crash],
          [agent_id |-> "A", message |-> m_error_x],
          [agent_id |-> "B", timestamp |-> ts_10]}

\* Batches handed to PatchEvaluator and to patch_propagation_analysis
PatchEntries ==
    [agent_id : {"eng"}, timestamp : {ts_9},
     message : {m_ok, m_timeout, m_timeout_error, m_test_failed,
                m_test_failed_sp}]
    \cup {[agent_id |-> "qa", timestamp |-> ts_9, message |-> m_test_failed],
          [timestamp |-> ts_9, message |-> m_crash]}

\* Batches handed to PatchEvaluator for advanced_evaluation_report
ReportEntries ==
    [agent_id : {"eng"}, timestamp : {ts_T0, ts_T5, ts_9},
     message : {m_test_failed, m_ok}]
    \cup [agent_id : {"eng"}, timestamp : {ts_T0},
          message : {m_timeout, m_crash, m_connection_failed}]
    \cup {[agent_id |-> "qa", timestamp |-> ts_T5, message |-> m_ok]}

\* The threads that log to a handler they were given, or clear it
Producers == {"p1"}

\* The threads that register agents and read the logs through the manager
Readers == {"main"}

Threads == Producers \cup Readers

\* The agent ids that are registered
AgentIds == {"A", "B"}

\* What a logging.LogRecord gives to emit, but for its time of creation
Records == {[msg |-> m_crash, levelname |-> "ERROR"]}

SeqsUpTo(S, n) == UNION {[1..k -> S] : k \in 0..n}

\* ----------------------------------------------------------------- dict --
\* log.get(key, default)
get(log, key, default) == IF key \in DOMAIN log THEN log[key] ELSE default

\* A dict that is iterated is a list of <<key, value>> in insertion order
dict_has(d, k) == \E i \in DOMAIN d : d[i][1] = k

dict_get(d, k, default) ==
    IF dict_has(d, k)
    THEN d[CHOOSE i \in DOMAIN d : d[i][1] = k][2]
    ELSE default

dict_set(d, k, v) ==
    IF dict_has(d, k)
    THEN [i \in DOMAIN d |-> IF d[i][1] = k THEN <<k, v>> ELSE d[i]]
    ELSE Append(d, <<k, v>>)

dict_keys(d) == {d[i][1] : i \in DOMAIN d}

Range(s) == {s[i] : i \in DOMAIN s}

\* None / a value, for a variable that may hold None
None == <<>>

Some(x) == <<x>>

\* ------------------------------------------------------ FailureAnalyzer --
\* _categorize_failure with the logic/test group tested first
_categorize_failure_logic_first(msg) ==
    LET msg_lower == lower(msg)
    IN  IF any_in(msg_lower, LogicKeywords) THEN "Logic / test failure"
        ELSE IF any_in(msg_lower, SyntaxKeywords) THEN "Syntax / compile error"
        ELSE IF any_in(msg_lower, TimeoutKeywords) THEN "Timeout"
        ELSE IF any_in(msg_lower, HallucinationKeywords)
             THEN "LLM hallucination"
        ELSE "Other"

_categorize_failure(msg) ==
    LET msg_lower == lower(msg)
    IN  IF any_in(msg_lower, SyntaxKeywords) THEN "Syntax / compile error"
        ELSE IF any_in(msg_lower, LogicKeywords) THEN "Logic / test failure"
        ELSE IF any_in(msg_lower, TimeoutKeywords) THEN "Timeout"
        ELSE IF any_in(msg_lower, HallucinationKeywords)
             THEN "LLM hallucination"
        ELSE "Other"

\* {**log, 'category': categorized}
with_category(log, categorized) ==
    [k \in DOMAIN log \cup {"category"} |->
        IF k = "category" THEN categorized ELSE log[k]]

\* One iteration of the loop of _group_failures_by_agent
group_step(failures, log) ==
    LET agent_id == get(log, "agent_id", "unknown")
        msg == get(log, "message", <<>>)
    IN  IF any_in(lower(msg), GroupKeywords)
        THEN dict_set(failures, agent_id,
                      Append(dict_get(failures, agent_id, <<>>),
                             with_category(log, _categorize_failure(msg))))
        ELSE failures

RECURSIVE group_loop(_, _)
group_loop(l, n) ==
    IF n = 0 THEN <<>>
    ELSE LET failures == group_loop(l, n - 1) IN group_step(failures, l[n])

_group_failures_by_agent(l) == group_loop(l, Len(l))

\* -------------------------------------------- FailurePropagationMonitor --
sort_key(x) == get(x, "timestamp", <<>>)

\* Stable insertion: x goes before the first element whose key exceeds its own
insert_sorted(acc, x) ==
    LET later == {i \in DOMAIN acc : str_lt(sort_key(x), sort_key(acc[i]))}
        pos == IF later = {} THEN Len(acc) + 1
               ELSE CHOOSE i \in later : \A j \in later : i <= j
    IN  SubSeq(acc, 1, pos - 1) \o <<x>> \o SubSeq(acc, pos, Len(acc))

RECURSIVE sorted_upto(_, _)
sorted_upto(l, n) ==
    IF n = 0 THEN <<>>
    ELSE LET acc == sorted_upto(l, n - 1) IN insert_sorted(acc, l[n])

\* sorted(logs, key=lambda x: x.get('timestamp', ''))
sorted(l) == sorted_upto(l, Len(l))

\* The failure gate of map_failure_propagation
map_is_failure(log) == any_in(lower(get(log, "message", <<>>)), MapKeywords)

\* `if last_failure:` -- None and the empty dict are falsy
truthy(last) == last # None /\ DOMAIN last[1] # {}

\* map_step without the comparison of the two agent ids
map_step_any_agent(st, log) ==
    IF st.raised \/ ~map_is_failure(log) THEN st
    ELSE IF ~truthy(st.last_failure)
         THEN [st EXCEPT !.last_failure = Some(log)]
    ELSE LET last == st.last_failure[1]
         IN  IF "agent_id" \notin DOMAIN log \/ "agent_id" \notin DOMAIN last
                \/ "timestamp" \notin DOMAIN log
             THEN [st EXCEPT !.raised = TRUE]
             ELSE [st EXCEPT
                     !.propagation = Append(@,
                         [source_agent |-> last["agent_id"],
                          target_agent |-> log["agent_id"],
                          timestamp |-> log["timestamp"],
                          message |-> log["message"]]),
                     !.last_failure = Some(log)]

\* map_step with `last_failure = log` inside the different-agent branch
map_step_same_agent_kept(st, log) ==
    IF st.raised \/ ~map_is_failure(log) THEN st
    ELSE IF ~truthy(st.last_failure)
         THEN [st EXCEPT !.last_failure = Some(log)]
    ELSE LET last == st.last_failure[1]
         IN  IF "agent_id" \notin DOMAIN log \/ "agent_id" \notin DOMAIN last
             THEN [st EXCEPT !.raised = TRUE]
             ELSE IF log["agent_id"] # last["agent_id"]
                  THEN IF "timestamp" \notin DOMAIN log
                       THEN [st EXCEPT !.raised = TRUE]
                       ELSE [st EXCEPT
                               !.propagation = Append(@,
                                   [source_agent |-> last["agent_id"],
                                    target_agent |-> log["agent_id"],
                                    timestamp |-> log["timestamp"],
                                    message |-> log["message"]]),
                               !.last_failure = Some(log)]
                  ELSE st

\* One iteration of the loop of map_failure_propagation; st.raised is a
\* KeyError of log['agent_id'], last_failure['agent_id'] or log['timestamp']
map_step(st, log) ==
    IF st.raised \/ ~map_is_failure(log) THEN st
    ELSE IF ~truthy(st.last_failure)
         THEN [st EXCEPT !.last_failure = Some(log)]
    ELSE LET last == st.last_failure[1]
         IN  IF "agent_id" \notin DOMAIN log \/ "agent_id" \notin DOMAIN last
             THEN [st EXCEPT !.raised = TRUE]
             ELSE IF log["agent_id"] # last["agent_id"]
                  THEN IF "timestamp" \notin DOMAIN log
                       THEN [st EXCEPT !.raised = TRUE]
                       ELSE [st EXCEPT
                               !.propagation = Append(@,
                                   [source_agent |-> last["agent_id"],
                                    target_agent |-> log["agent_id"],
                                    timestamp |-> log["timestamp"],
                                    message |-> log["message"]]),
                               !.last_failure = Some(log)]
                  ELSE [st EXCEPT !.last_failure = Some(log)]

RECURSIVE map_loop(_, _)
map_loop(l, n) ==
    IF n = 0
    THEN [propagation |-> <<>>, last_failure |-> None, raised |-> FALSE]
    ELSE LET st == map_loop(l, n - 1) IN map_step(st, l[n])

map_failure_propagation(l) == map_loop(l, Len(l))

\* introducer_step without the `if msg not in seen` test
introducer_step_last_wins(st, log) ==
    LET msg == strip(get(log, "message", <<>>))
    IN  IF st.raised \/ ~any_in(lower(msg), IntroducerKeywords) THEN st
        ELSE IF "agent_id" \notin DOMAIN log
             THEN [st EXCEPT !.raised = TRUE]
        ELSE [st EXCEPT !.seen = dict_set(@, msg, log["agent_id"])]

\* One iteration of the loop of show_failure_introducers; st.raised is a
\* KeyError of log['agent_id']
introducer_step(st, log) ==
    LET msg == strip(get(log, "message", <<>>))
    IN  IF st.raised \/ ~any_in(lower(msg), IntroducerKeywords) THEN st
        ELSE IF dict_has(st.seen, msg) THEN st
        ELSE IF "agent_id" \notin DOMAIN log
             THEN [st EXCEPT !.raised = TRUE]
        ELSE [st EXCEPT !.seen = dict_set(@, msg, log["agent_id"])]

RECURSIVE introducer_loop(_, _)
introducer_loop(l, n) ==
    IF n = 0 THEN [seen |-> <<>>, raised |-> FALSE]
    ELSE LET st == introducer_loop(l, n - 1) IN introducer_step(st, l[n])

show_failure_introducers(l) == introducer_loop(l, Len(l))

\* extract_step without the .strip() of the message
extract_step_unstripped(failures, log) ==
    LET agent_id == get(log, "agent_id", "unknown")
        msg == get(log, "message", <<>>)
    IN  IF any_in(lower(msg), ExtractKeywords)
        THEN dict_set(failures, agent_id,
                      Append(dict_get(failures, agent_id, <<>>), msg))
        ELSE failures

\* One iteration of the loop of extract_failures (a defaultdict(list))
extract_step(failures, log) ==
    LET agent_id == get(log, "agent_id", "unknown")
        msg == strip(get(log, "message", <<>>))
    IN  IF any_in(lower(msg), ExtractKeywords)
        THEN dict_set(failures, agent_id,
                      Append(dict_get(failures, agent_id, <<>>), msg))
        ELSE failures

RECURSIVE extract_loop(_, _)
extract_loop(l, n) ==
    IF n = 0 THEN <<>>
    ELSE LET failures == extract_loop(l, n - 1)
         IN  extract_step(failures, l[n])

extract_failures(l) == extract_loop(l, Len(l))

\* patch_sets with `introduced = after_set`
patch_sets_introduced_all(before, after, agent) ==
    LET before_set == Range(dict_get(before, agent, <<>>))
        after_set == Range(dict_get(after, agent, <<>>))
    IN  [fixed |-> before_set \ after_set,
         partial |-> before_set \cap after_set,
         introduced |-> after_set]

\* The three sets of one agent
patch_sets(before, after, agent) ==
    LET before_set == Range(dict_get(before, agent, <<>>))
        after_set == Range(dict_get(after, agent, <<>>))
    IN  [fixed |-> before_set \ after_set,
         partial |-> before_set \cap after_set,
         introduced |-> after_set \ before_set]

\* list(a_set): the elements once each, in an order the set chooses
list_of(S) == {l \in [1..Cardinality(S) -> S] : Range(l) = S}

\* The dicts {agent: value(agent)} a loop over a set of agents can build
RECURSIVE dicts_over(_, _)
dicts_over(agents, values) ==
    IF agents = {} THEN {<<>>}
    ELSE LET a == CHOOSE x \in agents : TRUE
         IN  {(a :> v) @@ r : v \in values[a],
                              r \in dicts_over(agents \ {a}, values)}

\* The results patch_propagation_analysis may return: the result dict is
\* filled in the iteration order of a set, so it is a function of the agent
patch_propagation_analysis(l_before, l_after) ==
    LET before == extract_failures(l_before)
        after == extract_failures(l_after)
        all_agents == dict_keys(before) \cup dict_keys(after)
        entry == [agent \in all_agents |->
            LET s == patch_sets(before, after, agent)
            IN  {[fully_fixed |-> f, partially_fixed |-> p,
                  newly_introduced |-> n] :
                    f \in list_of(s.fixed), p \in list_of(s.partial),
                    n \in list_of(s.introduced)}]
    IN  dicts_over(all_agents, entry)

\* -------------------------------------------------------- PatchEvaluator --
\* count_step that enters every agent it meets, failure or not
count_step_every_agent(failures, log) ==
    LET agent_id == get(log, "agent_id", "unknown")
    IN  IF any_in(lower(get(log, "message", <<>>)), CountKeywords)
        THEN dict_set(failures, agent_id, dict_get(failures, agent_id, 0) + 1)
        ELSE dict_set(failures, agent_id, dict_get(failures, agent_id, 0))

\* One iteration of the loop of count_failures
count_step(failures, log) ==
    LET agent_id == get(log, "agent_id", "unknown")
    IN  IF any_in(lower(get(log, "message", <<>>)), CountKeywords)
        THEN dict_set(failures, agent_id, dict_get(failures, agent_id, 0) + 1)
        ELSE failures

RECURSIVE count_loop(_, _)
count_loop(l, n) ==
    IF n = 0 THEN <<>>
    ELSE LET failures == count_loop(l, n - 1) IN count_step(failures, l[n])

count_failures(l) == count_loop(l, Len(l))

Digits == <<"0","1","2","3","4","5","6","7","8","9">>

\* str(n) for n >= 0, as the f-string formats a count
RECURSIVE int_str(_)
int_str(n) ==
    IF n < 10 THEN <<Digits[n + 1]>>
    ELSE int_str(n \div 10) \o <<Digits[(n % 10) + 1]>>

\* verdict with the `a < b` test ahead of the tests for zero
verdict_reduced_first(b, a) ==
    IF a < b
    THEN <<"Failures reduced", " (before: ">> \o int_str(b)
         \o <<", after: ">> \o int_str(a) \o <<").">>
    ELSE IF b = 0 /\ a = 0 THEN <<"No failures before or after patch.">>
    ELSE IF b = 0 /\ a > 0
         THEN <<"New failures introduced", " (before: ", "0", ", after: ">>
              \o int_str(a) \o <<").">>
    ELSE IF a = b
         THEN <<"No change in failures", " (before: ">> \o int_str(b)
              \o <<", after: ">> \o int_str(a) \o <<").">>
    ELSE <<"Failures increased", " (before: ">> \o int_str(b)
         \o <<", after: ">> \o int_str(a) \o <<").">>

\* The verdict for counts b and a: the pieces of the f-string in order
verdict(b, a) ==
    IF b = 0 /\ a = 0 THEN <<"No failures before or after patch.">>
    ELSE IF b > 0 /\ a = 0
         THEN <<"All failures resolved", " (before: ">> \o int_str(b)
              \o <<", after: ", "0", ").">>
    ELSE IF b = 0 /\ a > 0
         THEN <<"New failures introduced", " (before: ", "0", ", after: ">>
              \o int_str(a) \o <<").">>
    ELSE IF a < b
         THEN <<"Failures reduced", " (before: ">> \o int_str(b)
              \o <<", after: ">> \o int_str(a) \o <<").">>
    ELSE IF a = b
         THEN <<"No change in failures", " (before: ">> \o int_str(b)
              \o <<", after: ">> \o int_str(a) \o <<").">>
    ELSE <<"Failures increased", " (before: ">> \o int_str(b)
         \o <<", after: ">> \o int_str(a) \o <<").">>

evaluate_patch_effectiveness(l_before, l_after) ==
    LET before == count_failures(l_before)
        after == count_failures(l_after)
        all_agents == dict_keys(before) \cup dict_keys(after)
    IN  [agent \in all_agents |->
            verdict(dict_get(before, agent, 0), dict_get(after, agent, 0))]

\* classify_failure_type without its `crash` branch
classify_failure_type_no_crash(msg) ==
    LET m == lower(msg)
    IN  IF contains(m, TypeKeywords[1]) THEN "timeout"
        ELSE IF contains(m, TypeKeywords[2]) THEN "connection"
        ELSE IF contains(m, TypeKeywords[3]) THEN "resource"
        ELSE IF contains(m, TypeKeywords[4]) THEN "memory"
        ELSE IF contains(m, TypeKeywords[5]) THEN "disk"
        ELSE IF contains(m, TypeKeywords[6]) THEN "exception"
        ELSE IF contains(m, TypeKeywords[8]) THEN "fail"
        ELSE IF contains(m, TypeKeywords[9]) THEN "error"
        ELSE "other"

classify_failure_type(msg) ==
    LET m == lower(msg)
    IN  IF contains(m, TypeKeywords[1]) THEN "timeout"
        ELSE IF contains(m, TypeKeywords[2]) THEN "connection"
        ELSE IF contains(m, TypeKeywords[3]) THEN "resource"
        ELSE IF contains(m, TypeKeywords[4]) THEN "memory"
        ELSE IF contains(m, TypeKeywords[5]) THEN "disk"
        ELSE IF contains(m, TypeKeywords[6]) THEN "exception"
        ELSE IF contains(m, TypeKeywords[7]) THEN "crash"
        ELSE IF contains(m, TypeKeywords[8]) THEN "fail"
        ELSE IF contains(m, TypeKeywords[9]) THEN "error"
        ELSE "other"

is_digit(c) == \E i \in DOMAIN Digits : Digits[i] = c

digit(c) == (CHOOSE i \in DOMAIN Digits : Digits[i] = c) - 1

\* int() of the n digits of s that follow place i
RECURSIVE number_at(_, _, _)
number_at(s, i, n) ==
    IF n = 0 THEN 0 ELSE number_at(s, i, n - 1) * 10 + digit(s[i + n])

digits_at(s, i, n) == \A k \in (i + 1)..(i + n) : is_digit(s[k])

is_leap(y) == y % 4 = 0 /\ (y % 100 # 0 \/ y % 400 = 0)

DaysInMonth == <<31, 28, 31, 30, 31, 30, 31, 31, 30, 31, 30, 31>>

days_in_month(y, m) == IF m = 2 /\ is_leap(y) THEN 29 ELSE DaysInMonth[m]

RECURSIVE days_before_month(_, _)
days_before_month(y, m) ==
    IF m = 1 THEN 0
    ELSE days_before_month(y, m - 1) + days_in_month(y, m - 1)

\* The ordinal of a date, 1 for 0001-01-01
ymd2ord(y, m, d) ==
    LET y1 == y - 1
    IN  y1 * 365 + (y1 \div 4) - (y1 \div 100) + (y1 \div 400)
        + days_before_month(y, m) + d

\* The HH[:MM[:SS]] after place 11 of ts, as a list, or None
time_fields(ts) ==
    LET n == Len(ts)
    IN  IF n = 10 THEN Some(<<0, 0, 0>>)
        ELSE IF n \notin {13, 16, 19} \/ ~digits_at(ts, 11, 2) THEN None
        ELSE IF n = 13 THEN Some(<<number_at(ts, 11, 2), 0, 0>>)
        ELSE IF ts[14] # ":" \/ ~digits_at(ts, 14, 2) THEN None
        ELSE IF n = 16
             THEN Some(<<number_at(ts, 11, 2), number_at(ts, 14, 2), 0>>)
        ELSE IF ts[17] # ":" \/ ~digits_at(ts, 17, 2) THEN None
        ELSE Some(<<number_at(ts, 11, 2), number_at(ts, 14, 2),
                    number_at(ts, 17, 2)>>)

\* parse_time: datetime.fromisoformat(ts) of a str of at most 19 characters
\* in the format YYYY-MM-DD[*HH[:MM[:SS]]], as Some(<<day ordinal, second of
\* the day>>); None where fromisoformat raises
parse_time(ts) ==
    IF Len(ts) < 10 \/ ~digits_at(ts, 0, 4) \/ ts[5] # "-"
       \/ ~digits_at(ts, 5, 2) \/ ts[8] # "-" \/ ~digits_at(ts, 8, 2)
    THEN None
    ELSE LET y == number_at(ts, 0, 4)
             m == number_at(ts, 5, 2)
             d == number_at(ts, 8, 2)
             hms == time_fields(ts)
         IN  IF y < 1 \/ m < 1 \/ m > 12 \/ d < 1 THEN None
             ELSE IF d > days_in_month(y, m) \/ hms = None THEN None
             ELSE IF hms[1][1] > 23 \/ hms[1][2] > 59 \/ hms[1][3] > 59
                  THEN None
             ELSE Some(<<ymd2ord(y, m, d),
                         hms[1][1] * 3600 + hms[1][2] * 60 + hms[1][3]>>)

\* t > u for two datetime
time_gt(t, u) == t[1] > u[1] \/ (t[1] = u[1] /\ t[2] > u[2])

\* t - u for two datetime with t > u: a timedelta <<days, seconds>>
time_sub(t, u) ==
    IF t[2] >= u[2] THEN <<t[1] - u[1], t[2] - u[2]>>
    ELSE <<t[1] - u[1] - 1, t[2] - u[2] + 86400>>

two_digits(n) == <<Digits[(n \div 10) + 1], Digits[(n % 10) + 1]>>

\* str(delta) of a timedelta without microseconds
timedelta_str(delta) ==
    LET hh == delta[2] \div 3600
        mm == (delta[2] % 3600) \div 60
        ss == delta[2] % 60
        hms == int_str(hh) \o <<":">> \o two_digits(mm) \o <<":">>
               \o two_digits(ss)
    IN  IF delta[1] = 0 THEN hms
        ELSE IF delta[1] = 1
             THEN int_str(delta[1]) \o <<" ","d","a","y",","," ">> \o hms
        ELSE int_str(delta[1]) \o <<" ","d","a","y","s",","," ">> \o hms

\* The failure gate of advanced_evaluation_report
report_is_failure(msg) == any_in(lower(msg), ReportKeywords)

\* One iteration of the loop over before_logs, lines 279-287
report_before_step(st, log) ==
    LET msg == get(log, "message", <<>>)
        t == parse_time(get(log, "timestamp", <<>>))
    IN  IF report_is_failure(msg)
        THEN [types |-> dict_set(st.types, classify_failure_type(msg),
                  dict_get(st.types, classify_failure_type(msg), 0) + 1),
              msgs |-> st.msgs \cup {msg},
              last_failure_time |->
                  IF t # None /\ (st.last_failure_time = None
                                  \/ time_gt(t[1], st.last_failure_time[1]))
                  THEN t ELSE st.last_failure_time]
        ELSE st

RECURSIVE report_before_loop(_, _)
report_before_loop(l, n) ==
    IF n = 0 THEN [types |-> <<>>, msgs |-> {}, last_failure_time |-> None]
    ELSE LET st == report_before_loop(l, n - 1)
         IN  report_before_step(st, l[n])

\* One iteration of the loop over after_logs, lines 288-298
report_after_step(st, log, last_failure_time) ==
    LET msg == get(log, "message", <<>>)
        t == parse_time(get(log, "timestamp", <<>>))
    IN  IF report_is_failure(msg)
        THEN [st EXCEPT
                !.types = dict_set(@, classify_failure_type(msg),
                              dict_get(@, classify_failure_type(msg), 0) + 1),
                !.msgs = @ \cup {msg}]
        ELSE IF /\ t # None
                /\ last_failure_time # None
                /\ \/ st.first_success_time = None
                   \/ time_gt(st.first_success_time[1], t[1])
                /\ time_gt(t[1], last_failure_time[1])
             THEN [st EXCEPT !.first_success_time = t]
        ELSE st

RECURSIVE report_after_loop(_, _, _)
report_after_loop(l, n, last_failure_time) ==
    IF n = 0 THEN [types |-> <<>>, msgs |-> {}, first_success_time |-> None]
    ELSE LET st == report_after_loop(l, n - 1, last_failure_time)
         IN  report_after_step(st, l[n], last_failure_time)

\* group_by_agent(logs)[agent]: the entries of the agent in the order of logs
group_by_agent(l, agent) ==
    LET of_agent(log) == get(log, "agent_id", "unknown") = agent
    IN  SelectSeq(l, of_agent)

\* report[agent], lines 270-310
agent_report(l_before, l_after, agent) ==
    LET before_logs == group_by_agent(l_before, agent)
        after_logs == group_by_agent(l_after, agent)
        bs == report_before_loop(before_logs, Len(before_logs))
        as == report_after_loop(after_logs, Len(after_logs),
                                bs.last_failure_time)
    IN  [failure_types_before |-> bs.types,
         failure_types_after |-> as.types,
         unique_failure_messages_before |-> Cardinality(bs.msgs),
         unique_failure_messages_after |-> Cardinality(as.msgs),
         time_to_recovery |->
             IF bs.last_failure_time # None /\ as.first_success_time # None
             THEN timedelta_str(time_sub(as.first_success_time[1],
                                         bs.last_failure_time[1]))
             ELSE None]

\* The report dict is filled in the iteration order of a set of agents, so
\* it is a function of the agent
advanced_evaluation_report(l_before, l_after) ==
    LET all_agents ==
            {get(l_before[i], "agent_id", "unknown") : i \in DOMAIN l_before}
            \cup {get(l_after[i], "agent_id", "unknown") : i \in DOMAIN l_after}
    IN  [agent \in all_agents |-> agent_report(l_before, l_after, agent)]

\* ------------------------------------------------- trace handler, manager --

\* A threading.Lock that no thread holds
Unlocked == "unlocked"

\* A lock that excludes nobody
acquire_no_exclusion(lock) == TRUE

\* `with self.lock` can be entered
acquire(lock) == lock = Unlocked

\* datetime.fromtimestamp(created).isoformat() of a whole number of seconds
\* created of the local day 2024-01-01
isoformat(created) ==
    <<"2","0","2","4","-","0","1","-","0","1","T">>
        \o two_digits(created \div 3600) \o <<":">>
        \o two_digits((created % 3600) \div 60) \o <<":">>
        \o two_digits(created % 60)

\* log_entry of MetaGPTTraceHandler.emit
log_entry(agent_id, record) ==
    [timestamp |-> isoformat(record.created),
     message |-> record.msg,
     level |-> record.levelname,
     agent_id |-> agent_id]

\* MetaGPTTraceHandler(agent_id); emitted is the history of the handler: the
\* entries emitted to it since it was cleared last
new_handler(agent_id) ==
    [agent_id |-> agent_id, logs |-> <<>>, lock |-> Unlocked,
     emitted |-> <<>>]

\* A manager that keeps the handler an agent id already has
register_keep_first(agents_dict, agent_id, handler) ==
    IF dict_has(agents_dict, agent_id) THEN agents_dict
    ELSE dict_set(agents_dict, agent_id, handler)

\* self.agents[agent_id] = handler
register(agents_dict, agent_id, handler) ==
    dict_set(agents_dict, agent_id, handler)

\* The dicts get_all_logs appends to all_logs for the logs of one handler
all_logs_of(agent_id, handler_logs) ==
    [i \in DOMAIN handler_logs |->
        [agent_id |-> agent_id,
         timestamp |-> handler_logs[i].timestamp,
         message |-> handler_logs[i].message]]

\* A thread that is in no call. ret is the list its last call returned, if
\* any; handed, expected, visible and registered are history: the value of
\* the list when it was returned; per agent read, the entries the handler that
\* was read had been given since its last clear when the read ended; per
\* agent read, the same of the handler registered last for the agent; and the
\* agent ids that had a handler when the call returned
Idle ==
    [pc |-> "idle", op |-> "none", agent_id |-> "", handler |-> 0,
     record |-> None, k |-> 0, n |-> 0, copy |-> <<>>, all_logs |-> <<>>,
     ret |-> None, handed |-> <<>>, expected |-> <<>>, visible |-> <<>>,
     registered |-> {}]

\* The handler registered last for agent_id
LatestHandler(hs, agent_id) ==
    CHOOSE h \in DOMAIN hs :
        /\ hs[h].agent_id = agent_id
        /\ \A g \in DOMAIN hs : hs[g].agent_id = agent_id => g <= h

\* The agent ids that were given a handler
RegisteredIds(hs) == {hs[h].agent_id : h \in DOMAIN hs}

\* ---------------------------------------------------------------- state --
VARIABLES
    obj,            \* the object constructed: its class name, or "none"
    arg_logs,       \* the list given to the constructor of the monitor
    logs,           \* self.logs
    logs_before,    \* self.logs_before
    logs_after,     \* self.logs_after
    agent_failures, \* self.agent_failures
    op,             \* the last method called on the object, or "none"
    propagation,    \* what map_failure_propagation returned
    last_failure,   \* last_failure when map_failure_propagation ended
    seen,           \* the map show_failure_introducers printed
    patch_result,   \* what patch_propagation_analysis returned
    evaluation,     \* what evaluate_patch_effectiveness returned
    raised,         \* the last method call ended in an exception
    b,              \* a before count given to the branch chain of the verdict
    a,              \* an after count given to the branch chain of the verdict
    chosen,         \* the verdict the branch chain chose for b and a, or None
    report,         \* what advanced_evaluation_report returned
    handlers,       \* the MetaGPTTraceHandler objects created so far
    agents,         \* trace_manager.agents: agent id to handler
    manager_lock,   \* trace_manager.lock: the thread that holds it
    threads,        \* of each thread: the call it is in and its locals
    clock,          \* the time, in seconds
    clears          \* the number of clear calls begun

vars == <<obj, arg_logs, logs, logs_before, logs_after, agent_failures, op,
          propagation, last_failure, seen, patch_result, evaluation, raised,
          b, a, chosen, report, handlers, agents, manager_lock, threads,
          clock, clears>>

\* The variables of the trace handlers and the trace manager
trace == <<handlers, agents, manager_lock, threads, clock, clears>>

\* The variables of the later operations
rest == <<report, trace>>

\* The variables of the analysis classes
analysis ==
    <<obj, arg_logs, logs, logs_before, logs_after, agent_failures, op,
      propagation, last_failure, seen, patch_result, evaluation, raised,
      b, a, chosen, report>>

inputs == <<obj, arg_logs, logs, logs_before, logs_after, agent_failures,
            b, a, chosen>>

Init ==
    /\ obj = "none"
    /\ arg_logs = <<>>
    /\ logs = <<>>
    /\ logs_before = <<>>
    /\ logs_after = <<>>
    /\ agent_failures = <<>>
    /\ op = "none"
    /\ propagation = <<>>
    /\ last_failure = None
    /\ seen = <<>>
    /\ patch_result = <<>>
    /\ evaluation = <<>>
    /\ raised = FALSE
    /\ b = 0
    /\ a = 0
    /\ chosen = None
    /\ report = <<>>
    /\ handlers = <<>>
    /\ agents = <<>>
    /\ manager_lock = Unlocked
    /\ threads = [t \in Threads |-> Idle]
    /\ clock = 0
    /\ clears = 0

\* The branch chain of evaluate_patch_effectiveness as a function of two
\* counts: any pair of counts, no object
InitVerdict ==
    /\ obj = "none"
    /\ arg_logs = <<>>
    /\ logs = <<>>
    /\ logs_before = <<>>
    /\ logs_after = <<>>
    /\ agent_failures = <<>>
    /\ op = "none"
    /\ propagation = <<>>
    /\ last_failure = None
    /\ seen = <<>>
    /\ patch_result = <<>>
    /\ evaluation = <<>>
    /\ raised = FALSE
    /\ b \in 0..MaxCount
    /\ a \in 0..MaxCount
    /\ chosen = None
    /\ report = <<>>
    /\ handlers = <<>>
    /\ agents = <<>>
    /\ manager_lock = Unlocked
    /\ threads = [t \in Threads |-> Idle]
    /\ clock = 0
    /\ clears = 0

\* FailureAnalyzer(logs)
NewFailureAnalyzer ==
    /\ obj = "none"
    /\ \E l \in SeqsUpTo(AnalyzerEntries, MaxAnalyzerLogs) :
        /\ logs' = l
        /\ agent_failures' = _group_failures_by_agent(l)
    /\ obj' = "FailureAnalyzer"
    /\ UNCHANGED <<arg_logs, logs_before, logs_after, op, propagation,
                   last_failure, seen, patch_result, evaluation, raised,
                   b, a, chosen, rest>>

\* FailureAnalyzer.classify_failures
ClassifyFailures ==
    /\ obj = "FailureAnalyzer"
    /\ op' = "classify_failures"
    /\ UNCHANGED <<inputs, propagation, last_failure, seen, patch_result,
                   evaluation, raised, rest>>

\* FailurePropagationMonitor(logs)
NewFailurePropagationMonitor ==
    /\ obj = "none"
    /\ \E l \in SeqsUpTo(MonitorEntries, MaxLogs) :
        /\ arg_logs' = l
        /\ logs' = sorted(l)
    /\ obj' = "FailurePropagationMonitor"
    /\ UNCHANGED <<logs_before, logs_after, agent_failures, op, propagation,
                   last_failure, seen, patch_result, evaluation, raised,
                   b, a, chosen, rest>>

\* FailurePropagationMonitor.map_failure_propagation
MapFailurePropagation ==
    /\ obj = "FailurePropagationMonitor"
    /\ LET st == map_failure_propagation(logs)
       IN  /\ propagation' = IF st.raised THEN <<>> ELSE st.propagation
           /\ last_failure' = st.last_failure
           /\ raised' = st.raised
    /\ op' = "map_failure_propagation"
    /\ seen' = <<>>
    /\ patch_result' = <<>>
    /\ evaluation' = <<>>
    /\ UNCHANGED <<inputs, rest>>

\* FailurePropagationMonitor.show_failure_introducers
ShowFailureIntroducers ==
    /\ obj = "FailurePropagationMonitor"
    /\ LET st == show_failure_introducers(logs)
       IN  /\ seen' = IF st.raised THEN <<>> ELSE st.seen
           /\ raised' = st.raised
    /\ op' = "show_failure_introducers"
    /\ propagation' = <<>>
    /\ last_failure' = None
    /\ patch_result' = <<>>
    /\ evaluation' = <<>>
    /\ UNCHANGED <<inputs, rest>>

\* PatchEvaluator(logs_before, logs_after)
NewPatchEvaluatorOf(entries, max_before, max_after) ==
    /\ obj = "none"
    /\ \E l_before \in SeqsUpTo(entries, max_before),
          l_after \in SeqsUpTo(entries, max_after) :
        /\ logs_before' = l_before
        /\ logs_after' = l_after
    /\ obj' = "PatchEvaluator"
    /\ UNCHANGED <<arg_logs, logs, agent_failures, op, propagation,
                   last_failure, seen, patch_result, evaluation, raised,
                   b, a, chosen, rest>>

NewPatchEvaluator == NewPatchEvaluatorOf(PatchEntries, MaxBefore, MaxAfter)

\* PatchEvaluator(logs_before, logs_after) on batches with ISO timestamps
NewTimedPatchEvaluator ==
    NewPatchEvaluatorOf(ReportEntries, MaxReportBefore, MaxReportAfter)

\* PatchEvaluator.advanced_evaluation_report
AdvancedEvaluationReport ==
    /\ obj = "PatchEvaluator"
    /\ report' = advanced_evaluation_report(logs_before, logs_after)
    /\ op' = "advanced_evaluation_report"
    /\ propagation' = <<>>
    /\ last_failure' = None
    /\ seen' = <<>>
    /\ patch_result' = <<>>
    /\ evaluation' = <<>>
    /\ raised' = FALSE
    /\ UNCHANGED <<inputs, trace>>

\* FailurePropagationMonitor.patch_propagation_analysis(logs_before,
\* logs_after), called on the two batches of the evaluator
PatchPropagationAnalysis ==
    /\ obj = "PatchEvaluator"
    /\ patch_result' \in patch_propagation_analysis(logs_before, logs_after)
    /\ op' = "patch_propagation_analysis"
    /\ propagation' = <<>>
    /\ last_failure' = None
    /\ seen' = <<>>
    /\ evaluation' = <<>>
    /\ raised' = FALSE
    /\ UNCHANGED <<inputs, rest>>

\* PatchEvaluator.evaluate_patch_effectiveness
EvaluatePatchEffectiveness ==
    /\ obj = "PatchEvaluator"
    /\ evaluation' = evaluate_patch_effectiveness(logs_before, logs_after)
    /\ op' = "evaluate_patch_effectiveness"
    /\ propagation' = <<>>
    /\ last_failure' = None
    /\ seen' = <<>>
    /\ patch_result' = <<>>
    /\ raised' = FALSE
    /\ UNCHANGED <<inputs, rest>>

\* Lines 204-215 of evaluate_patch_effectiveness on the counts b and a
ChooseVerdict ==
    /\ chosen = None
    /\ chosen' = Some(verdict(b, a))
    /\ UNCHANGED <<obj, arg_logs, logs, logs_before, logs_after,
                   agent_failures, op, propagation, last_failure, seen,
                   patch_result, evaluation, raised, b, a, rest>>

\* ---- MetaGPTTraceHandler

\* A thread calls handler.emit(record) with a record made now
EmitCall(t) ==
    /\ t \in Producers
    /\ threads[t].pc = "idle"
    /\ clock < MaxRecords
    /\ \E h \in DOMAIN handlers, r \in Records :
        threads' = [threads EXCEPT ![t] =
            [Idle EXCEPT !.pc = "emit", !.op = "emit", !.handler = h,
                         !.record = Some([created |-> clock, msg |-> r.msg,
                                          levelname |-> r.levelname])]]
    /\ clock' = clock + 1
    /\ UNCHANGED <<analysis, handlers, agents, manager_lock, clears>>

\* A thread logs to a logger the handler was added to: logging.Handler.handle
\* takes self.lock, which __init__ has replaced by a threading.Lock, and calls
\* emit with the lock held
LoggerHandle(t) ==
    /\ t \in Producers
    /\ threads[t].pc = "idle"
    /\ clock < MaxRecords
    /\ \E h \in DOMAIN handlers, r \in Records :
        /\ acquire(handlers[h].lock)
        /\ handlers' = [handlers EXCEPT ![h].lock = t]
        /\ threads' = [threads EXCEPT ![t] =
               [Idle EXCEPT !.pc = "emit", !.op = "handle", !.handler = h,
                            !.record = Some([created |-> clock, msg |-> r.msg,
                                             levelname |-> r.levelname])]]
    /\ clock' = clock + 1
    /\ UNCHANGED <<analysis, agents, manager_lock, clears>>

\* emit: `with self.lock` is entered
EmitAcquire(t) ==
    LET h == threads[t].handler
    IN  /\ threads[t].pc = "emit"
        /\ acquire(handlers[h].lock)
        /\ handlers' = [handlers EXCEPT ![h].lock = t]
        /\ threads' = [threads EXCEPT ![t].pc = "emit_locked"]
        /\ UNCHANGED <<analysis, agents, manager_lock, clock, clears>>

\* emit: the entry is built and appended, the lock released
EmitAppend(t) ==
    LET h == threads[t].handler
        entry == log_entry(handlers[h].agent_id, threads[t].record[1])
    IN  /\ threads[t].pc = "emit_locked"
        /\ handlers' = [handlers EXCEPT ![h].logs = Append(@, entry),
                                        ![h].lock = Unlocked,
                                        ![h].emitted = Append(@, entry)]
        /\ threads' = [threads EXCEPT ![t] = Idle]
        /\ UNCHANGED <<analysis, agents, manager_lock, clock, clears>>

\* A thread calls handler.get_logs()
GetLogsCall(t) ==
    /\ t \in Readers
    /\ threads[t].pc = "idle"
    /\ \E h \in DOMAIN handlers :
        threads' = [threads EXCEPT ![t] =
            [Idle EXCEPT !.pc = "get_logs", !.op = "get_logs",
                         !.handler = h]]
    /\ UNCHANGED <<analysis, handlers, agents, manager_lock, clock, clears>>

\* get_logs: `with self.lock` is entered and self.logs.copy() begins: a new
\* list for the entries the buffer has now
GetLogsAcquire(t) ==
    LET h == threads[t].handler
    IN  /\ threads[t].pc = "get_logs"
        /\ acquire(handlers[h].lock)
        /\ handlers' = [handlers EXCEPT ![h].lock = t]
        /\ threads' = [threads EXCEPT ![t].pc = "copy",
                                      ![t].n = Len(handlers[h].logs),
                                      ![t].copy = <<>>]
        /\ UNCHANGED <<analysis, agents, manager_lock, clock, clears>>

\* self.logs.copy() copies the next entry
GetLogsCopy(t) ==
    LET h == threads[t].handler
        i == Len(threads[t].copy) + 1
    IN  /\ threads[t].pc = "copy"
        /\ i <= threads[t].n
        /\ i <= Len(handlers[h].logs)
        /\ threads' = [threads EXCEPT ![t].copy = Append(@, handlers[h].logs[i])]
        /\ UNCHANGED <<analysis, handlers, agents, manager_lock, clock, clears>>

\* get_logs returns the copy and releases the lock; get_agent_logs returns it
\* in turn and releases the lock of the manager; get_all_logs appends its
\* dicts to all_logs and goes to the next agent
GetLogsReturn(t) ==
    LET h == threads[t].handler
        me == threads[t]
    IN  /\ me.pc = "copy"
        /\ Len(me.copy) >= me.n \/ Len(me.copy) >= Len(handlers[h].logs)
        /\ handlers' = [handlers EXCEPT ![h].lock = Unlocked]
        /\ IF me.op = "get_all_logs"
           THEN /\ threads' = [threads EXCEPT
                       ![t].pc = "all_next",
                       ![t].k = me.k + 1,
                       ![t].all_logs = @ \o all_logs_of(me.agent_id, me.copy),
                       ![t].expected =
                           Append(@, <<me.agent_id, handlers[h].emitted>>),
                       ![t].visible =
                           Append(@, <<me.agent_id,
                               handlers[LatestHandler(handlers, me.agent_id)]
                                   .emitted>>)]
                /\ UNCHANGED manager_lock
           ELSE /\ threads' = [threads EXCEPT
                       ![t].pc = "idle",
                       ![t].ret = Some(<<"copy", t>>),
                       ![t].handed = me.copy,
                       ![t].expected =
                           << <<handlers[h].agent_id, handlers[h].emitted>> >>,
                       ![t].visible =
                           IF me.op = "get_logs" THEN <<>>
                           ELSE << <<me.agent_id,
                               handlers[LatestHandler(handlers, me.agent_id)]
                                   .emitted>> >>,
                       ![t].registered = RegisteredIds(handlers)]
                /\ manager_lock' = IF me.op = "get_agent_logs" THEN Unlocked
                                   ELSE manager_lock
        /\ UNCHANGED <<analysis, agents, clock, clears>>

\* A thread calls handler.clear_logs()
ClearLogsCall(t) ==
    /\ t \in Producers
    /\ threads[t].pc = "idle"
    /\ clears < MaxClears
    /\ \E h \in DOMAIN handlers :
        threads' = [threads EXCEPT ![t] =
            [Idle EXCEPT !.pc = "clear_logs", !.op = "clear_logs",
                         !.handler = h]]
    /\ clears' = clears + 1
    /\ UNCHANGED <<analysis, handlers, agents, manager_lock, clock>>

\* clear_logs: `with self.lock` is entered
ClearLogsAcquire(t) ==
    LET h == threads[t].handler
    IN  /\ threads[t].pc = "clear_logs"
        /\ acquire(handlers[h].lock)
        /\ handlers' = [handlers EXCEPT ![h].lock = t]
        /\ threads' = [threads EXCEPT ![t].pc = "clear_locked"]
        /\ UNCHANGED <<analysis, agents, manager_lock, clock, clears>>

\* clear_logs: self.logs.clear(), the lock released; clear_agent_logs
\* releases the lock of the manager
ClearLogsClear(t) ==
    LET h == threads[t].handler
    IN  /\ threads[t].pc = "clear_locked"
        /\ handlers' = [handlers EXCEPT ![h].logs = <<>>,
                                        ![h].lock = Unlocked,
                                        ![h].emitted = <<>>]
        /\ manager_lock' = IF threads[t].op = "clear_agent_logs" THEN Unlocked
                           ELSE manager_lock
        /\ threads' = [threads EXCEPT ![t] = Idle]
        /\ UNCHANGED <<analysis, agents, clock, clears>>

\* ---- MetaGPTTraceManager

\* A thread calls trace_manager.register_agent(agent_id)
RegisterAgentCall(t) ==
    /\ t \in Readers
    /\ threads[t].pc = "idle"
    /\ Len(handlers)
         + Cardinality({u \in Threads : threads[u].op = "register_agent"})
       < MaxHandlers
    /\ \E agent_id \in AgentIds :
        threads' = [threads EXCEPT ![t] =
            [Idle EXCEPT !.pc = "register_agent", !.op = "register_agent",
                         !.agent_id = agent_id]]
    /\ UNCHANGED <<analysis, handlers, agents, manager_lock, clock, clears>>

\* register_agent: `with self.lock` is entered
RegisterAgentAcquire(t) ==
    /\ threads[t].pc = "register_agent"
    /\ acquire(manager_lock)
    /\ manager_lock' = t
    /\ threads' = [threads EXCEPT ![t].pc = "register_locked"]
    /\ UNCHANGED <<analysis, handlers, agents, clock, clears>>

\* register_agent: the handler is made and stored, the lock released
RegisterAgent(t) ==
    LET agent_id == threads[t].agent_id
        handler == Len(handlers) + 1
    IN  /\ threads[t].pc = "register_locked"
        /\ handlers' = Append(handlers, new_handler(agent_id))
        /\ agents' = register(agents, agent_id, handler)
        /\ manager_lock' = Unlocked
        /\ threads' = [threads EXCEPT ![t] = Idle]
        /\ UNCHANGED <<analysis, clock, clears>>

\* A thread calls trace_manager.get_agent_logs(agent_id)
GetAgentLogsCall(t) ==
    /\ t \in Readers
    /\ threads[t].pc = "idle"
    /\ \E agent_id \in AgentIds :
        threads' = [threads EXCEPT ![t] =
            [Idle EXCEPT !.pc = "get_agent_logs", !.op = "get_agent_logs",
                         !.agent_id = agent_id]]
    /\ UNCHANGED <<analysis, handlers, agents, manager_lock, clock, clears>>

\* get_agent_logs: `with self.lock` is entered; a registered agent's handler
\* is asked for its logs, else [] is returned
GetAgentLogsAcquire(t) ==
    LET agent_id == threads[t].agent_id
    IN  /\ threads[t].pc = "get_agent_logs"
        /\ acquire(manager_lock)
        /\ IF dict_has(agents, agent_id)
           THEN /\ manager_lock' = t
                /\ threads' = [threads EXCEPT
                       ![t].pc = "get_logs",
                       ![t].handler = dict_get(agents, agent_id, 0)]
           ELSE /\ manager_lock' = Unlocked
                /\ threads' = [threads EXCEPT
                       ![t].pc = "idle",
                       ![t].ret = Some(<<"new">>),
                       ![t].registered = RegisteredIds(handlers)]
        /\ UNCHANGED <<analysis, handlers, agents, clock, clears>>

\* A thread calls trace_manager.get_all_logs()
GetAllLogsCall(t) ==
    /\ t \in Readers
    /\ threads[t].pc = "idle"
    /\ threads' = [threads EXCEPT ![t] =
           [Idle EXCEPT !.pc = "get_all_logs", !.op = "get_all_logs"]]
    /\ UNCHANGED <<analysis, handlers, agents, manager_lock, clock, clears>>

\* get_all_logs: `with self.lock` is entered and the iteration begins
GetAllLogsAcquire(t) ==
    /\ threads[t].pc = "get_all_logs"
    /\ acquire(manager_lock)
    /\ manager_lock' = t
    /\ threads' = [threads EXCEPT ![t].pc = "all_next", ![t].k = 1]
    /\ UNCHANGED <<analysis, handlers, agents, clock, clears>>

\* get_all_logs: the next item of self.agents.items(), or the end of the
\* loop, where the lock is released and all_logs returned
GetAllLogsNext(t) ==
    LET k == threads[t].k
    IN  /\ threads[t].pc = "all_next"
        /\ IF k <= Len(agents)
           THEN /\ threads' = [threads EXCEPT
                       ![t].pc = "get_logs",
                       ![t].agent_id = agents[k][1],
                       ![t].handler = agents[k][2]]
                /\ UNCHANGED manager_lock
           ELSE /\ threads' = [threads EXCEPT
                       ![t].pc = "idle",
                       ![t].ret = Some(<<"all_logs", t>>),
                       ![t].handed = threads[t].all_logs,
                       ![t].registered = RegisteredIds(handlers)]
                /\ manager_lock' = Unlocked
        /\ UNCHANGED <<analysis, handlers, agents, clock, clears>>

\* A thread calls trace_manager.clear_agent_logs(agent_id)
ClearAgentLogsCall(t) ==
    /\ t \in Readers
    /\ threads[t].pc = "idle"
    /\ clears < MaxClears
    /\ \E agent_id \in AgentIds :
        threads' = [threads EXCEPT ![t] =
            [Idle EXCEPT !.pc = "clear_agent_logs", !.op = "clear_agent_logs",
                         !.agent_id = agent_id]]
    /\ clears' = clears + 1
    /\ UNCHANGED <<analysis, handlers, agents, manager_lock, clock>>

\* clear_agent_logs: `with self.lock` is entered; a registered agent's
\* handler is cleared, else nothing is done
ClearAgentLogsAcquire(t) ==
    LET agent_id == threads[t].agent_id
    IN  /\ threads[t].pc = "clear_agent_logs"
        /\ acquire(manager_lock)
        /\ IF dict_has(agents, agent_id)
           THEN /\ manager_lock' = t
                /\ threads' = [threads EXCEPT
                       ![t].pc = "clear_logs",
                       ![t].handler = dict_get(agents, agent_id, 0)]
           ELSE /\ manager_lock' = Unlocked
                /\ threads' = [threads EXCEPT ![t] = Idle]
        /\ UNCHANGED <<analysis, handlers, agents, clock, clears>>

NextHandler(t) ==
    \/ EmitCall(t) \/ LoggerHandle(t) \/ EmitAcquire(t) \/ EmitAppend(t)
    \/ GetLogsCall(t) \/ GetLogsAcquire(t) \/ GetLogsCopy(t)
    \/ GetLogsReturn(t)
    \/ ClearLogsCall(t) \/ ClearLogsAcquire(t) \/ ClearLogsClear(t)

NextManager(t) ==
    \/ RegisterAgentCall(t) \/ RegisterAgentAcquire(t) \/ RegisterAgent(t)
    \/ GetAgentLogsCall(t) \/ GetAgentLogsAcquire(t)
    \/ GetAllLogsCall(t) \/ GetAllLogsAcquire(t) \/ GetAllLogsNext(t)
    \/ ClearAgentLogsCall(t) \/ ClearAgentLogsAcquire(t)

NextTrace == \E t \in Threads : NextHandler(t) \/ NextManager(t)

NextAnalyzer == NewFailureAnalyzer \/ ClassifyFailures

NextMonitor ==
    \/ NewFailurePropagationMonitor
    \/ MapFailurePropagation
    \/ ShowFailureIntroducers

NextPatch ==
    \/ NewPatchEvaluator
    \/ PatchPropagationAnalysis
    \/ EvaluatePatchEffectiveness

NextReport == NewTimedPatchEvaluator \/ AdvancedEvaluationReport

Next ==
    \/ NextAnalyzer \/ NextMonitor \/ NextPatch \/ ChooseVerdict
    \/ NextReport \/ NextTrace

Spec == Init /\ [][Next]_vars

SpecAnalyzer == Init /\ [][NextAnalyzer]_vars

SpecMonitor == Init /\ [][NextMonitor]_vars

SpecPatch == Init /\ [][NextPatch]_vars

SpecVerdict == InitVerdict /\ [][ChooseVerdict]_vars

SpecReport == Init /\ [][NextReport]_vars

SpecTrace == Init /\ [][NextTrace]_vars

\* ------------------------------------------------- propagation mapping --
\* A LogEntry of the data model: all three fields are present
IsLogEntry(log) == DOMAIN log = {"agent_id", "timestamp", "message"}

WellFormed(l) == \A i \in DOMAIN l : IsLogEntry(l[i])

key_le(x, y) == ~str_lt(sort_key(y), sort_key(x))

\* The place of l[i] once l is ordered by timestamp string, ties in the
\* order of l
StableRank(l, i) ==
    Cardinality({j \in DOMAIN l :
        \/ str_lt(sort_key(l[j]), sort_key(l[i]))
        \/ sort_key(l[j]) = sort_key(l[i]) /\ j <= i})

StableSorted(l) ==
    [r \in DOMAIN l |-> l[CHOOSE i \in DOMAIN l : StableRank(l, i) = r]]

\* The entries of l the mapper takes for failures, in the order of l
MapFailures(l) == SelectSeq(l, map_is_failure)

\* The places of f whose entry comes from another agent than the one before
Handovers(f) == {i \in 2..Len(f) : f[i]["agent_id"] # f[i - 1]["agent_id"]}

\* One edge per handover, in the order of f
EdgesOf(f) ==
    LET h == Handovers(f)
        nth(k) == CHOOSE i \in h : Cardinality({j \in h : j <= i}) = k
    IN  [k \in 1..Cardinality(h) |->
            [source_agent |-> f[nth(k) - 1]["agent_id"],
             target_agent |-> f[nth(k)]["agent_id"],
             timestamp |-> f[nth(k)]["timestamp"],
             message |-> f[nth(k)]["message"]]]

LastOf(f) == IF f = <<>> THEN None ELSE Some(f[Len(f)])

\* C1: on a batch of log entries map_failure_propagation returns exactly one
\* edge per pair of entries that are adjacent in the failure-filtered, stably
\* timestamp-string-sorted batch and come from different agents, in that
\* order, each edge being (previous agent -> current agent, current
\* timestamp, current message); after every prefix of the sorted batch the
\* last-failure pointer is the last failure of that prefix (None if there is
\* none).  A failure here is an entry the mapper's gate accepts.
C1_PropagationEdges ==
    (op = "map_failure_propagation" /\ WellFormed(arg_logs)) =>
        LET f == MapFailures(StableSorted(arg_logs))
        IN  /\ ~raised
            /\ propagation = EdgesOf(f)
            /\ last_failure = LastOf(f)
            /\ \A n \in 0..Len(logs) :
                   map_loop(logs, n).last_failure
                       = LastOf(MapFailures(SubSeq(StableSorted(arg_logs), 1, n)))

\* Three failures A, A, B in sorted order, given in another order: one edge
C1_Witness ==
    /\ op = "map_failure_propagation"
    /\ WellFormed(arg_logs)
    /\ Len(arg_logs) = 3
    /\ arg_logs # logs
    /\ \A i \in DOMAIN logs : map_is_failure(logs[i])
    /\ <<logs[1]["agent_id"], logs[2]["agent_id"], logs[3]["agent_id"]>>
          = <<"A", "A", "B">>
    /\ Len(propagation) = 1
    /\ propagation[1]["source_agent"] = "A"
    /\ propagation[1]["target_agent"] = "B"
    /\ last_failure = Some(logs[3])

\* The failure detector of the grouping step (line 73)
is_failure(msg) == any_in(lower(msg), GroupKeywords)

\* C2: the mapper takes an entry for a failure iff its lowercased message
\* contains one of fail, error, exception, crash, timeout, hallucination, as
\* the grouping step does: after the call the last-failure pointer is the
\* last entry of the sorted batch that this detector accepts.
C2_MapperUsesDetector ==
    (op = "map_failure_propagation" /\ WellFormed(arg_logs)) =>
        LET detected(log) == is_failure(log["message"])
        IN  last_failure = LastOf(SelectSeq(logs, detected))

\* ----------------------------------------------------- failure grouping --
\* C3: every message that _categorize_failure gives a category other than
\* 'Other' passes the failure detector, so every such entry of the batch is
\* kept, with its category, in the list of its agent.
C3_ClassifiedIsDetected ==
    obj = "FailureAnalyzer" =>
        \A i \in DOMAIN logs :
            LET msg == get(logs[i], "message", <<>>)
                agent_id == get(logs[i], "agent_id", "unknown")
                category == _categorize_failure(msg)
            IN  category # "Other" =>
                    /\ is_failure(msg)
                    /\ with_category(logs[i], category)
                           \in Range(dict_get(agent_failures, agent_id, <<>>))

\* ----------------------------------------------------- patch comparison --
\* The agent ids of a collection, 'unknown' for an entry without one
AgentsOf(l) == {get(l[i], "agent_id", "unknown") : i \in DOMAIN l}

\* The entries of agent in l whose message contains one of kws
PositiveOf(l, agent, kws) ==
    {i \in DOMAIN l :
        /\ get(l[i], "agent_id", "unknown") = agent
        /\ any_in(lower(get(l[i], "message", <<>>)), kws)}

\* The trimmed texts of the detector-positive messages of agent in l
MessageSet(l, agent) ==
    {strip(get(l[i], "message", <<>>)) :
        i \in PositiveOf(l, agent, GroupKeywords)}

\* C4: evaluate_patch_effectiveness counts, per agent and per collection,
\* every entry the six-keyword detector accepts, duplicates included: every
\* agent with such an entry gets the verdict of these two counts, which are
\* at least the number of distinct messages of the patch diff.
C4_CountsDetectorPositive ==
    op = "evaluate_patch_effectiveness" =>
        \A agent \in AgentsOf(logs_before) \cup AgentsOf(logs_after) :
            LET cb == Cardinality(PositiveOf(logs_before, agent, GroupKeywords))
                ca == Cardinality(PositiveOf(logs_after, agent, GroupKeywords))
            IN  cb + ca > 0 =>
                    /\ agent \in DOMAIN evaluation
                    /\ evaluation[agent] = verdict(cb, ca)
                    /\ cb >= Cardinality(MessageSet(logs_before, agent))
                    /\ ca >= Cardinality(MessageSet(logs_after, agent))

\* C5: the patch diff has a result for every agent id seen in either
\* collection, an agent without any failure included, whose three lists are
\* empty.
C5_EveryAgentReported ==
    op = "patch_propagation_analysis" =>
        /\ DOMAIN patch_result = AgentsOf(logs_before) \cup AgentsOf(logs_after)
        /\ \A agent \in DOMAIN patch_result :
               (MessageSet(logs_before, agent) = {}
                /\ MessageSet(logs_after, agent) = {}) =>
                   patch_result[agent]
                       = [fully_fixed |-> <<>>, partially_fixed |-> <<>>,
                          newly_introduced |-> <<>>]

\* The orders a list can be given in
OrdersOf(l) ==
    {[i \in DOMAIN l |-> l[p[i]]] :
        p \in {q \in [DOMAIN l -> DOMAIN l] : Range(q) = DOMAIN l}}

NoDuplicates(l) == Cardinality(Range(l)) = Len(l)

\* C6: for every agent of the patch diff, with before_set and after_set the
\* trimmed detector-positive message texts of the agent, fully_fixed is
\* before_set minus after_set, partially_fixed their intersection and
\* newly_introduced after_set minus before_set; the three are disjoint sets
\* covering before_set and after_set, and the result is the same for every
\* order of the entries inside each collection.
C6_PatchSets ==
    op = "patch_propagation_analysis" =>
        /\ \A agent \in DOMAIN patch_result :
            LET before_set == MessageSet(logs_before, agent)
                after_set == MessageSet(logs_after, agent)
                fixed == Range(patch_result[agent].fully_fixed)
                partial == Range(patch_result[agent].partially_fixed)
                introduced == Range(patch_result[agent].newly_introduced)
            IN  /\ fixed = before_set \ after_set
                /\ partial = before_set \cap after_set
                /\ introduced = after_set \ before_set
                /\ fixed \cap partial = {}
                /\ partial \cap introduced = {}
                /\ fixed \cap introduced = {}
                /\ fixed \cup partial = before_set
                /\ partial \cup introduced = after_set
                /\ NoDuplicates(patch_result[agent].fully_fixed)
                /\ NoDuplicates(patch_result[agent].partially_fixed)
                /\ NoDuplicates(patch_result[agent].newly_introduced)
        /\ \A l_before \in OrdersOf(logs_before),
              l_after \in OrdersOf(logs_after) :
               patch_propagation_analysis(l_before, l_after)
                   = patch_propagation_analysis(logs_before, logs_after)

\* An agent with a fixed and a still-present failure, the latter logged with
\* surrounding whitespace before the patch and without it after
C6_Witness ==
    /\ op = "patch_propagation_analysis"
    /\ "eng" \in DOMAIN patch_result
    /\ patch_result["eng"].fully_fixed = <<m_timeout_error>>
    /\ patch_result["eng"].partially_fixed = <<m_test_failed>>
    /\ patch_result["eng"].newly_introduced = <<>>
    /\ logs_before[1]["message"] = m_test_failed_sp
    /\ logs_after[1]["message"] = m_test_failed

\* C7: the diff of a collection against itself has, for every agent, an
\* empty fully_fixed, an empty newly_introduced and a partially_fixed that is
\* the before_set of the agent.
C7_SelfDiff ==
    (op = "patch_propagation_analysis" /\ logs_before = logs_after) =>
        \A agent \in DOMAIN patch_result :
            /\ patch_result[agent].fully_fixed = <<>>
            /\ patch_result[agent].newly_introduced = <<>>
            /\ Range(patch_result[agent].partially_fixed)
                   = MessageSet(logs_before, agent)
            /\ NoDuplicates(patch_result[agent].partially_fixed)

\* A collection with a failure, diffed against itself
C7_Witness ==
    /\ op = "patch_propagation_analysis"
    /\ logs_before = logs_after
    /\ DOMAIN patch_result # {}
    /\ \A agent \in DOMAIN patch_result :
           patch_result[agent].partially_fixed # <<>>

\* The six verdicts, by their leading text
VerdictNames ==
    <<"No failures before or after patch.", "All failures resolved",
      "New failures introduced", "Failures reduced", "No change in failures",
      "Failures increased">>

\* The conditions of the six verdicts in the order of priority
VerdictConditions(cb, ca) ==
    <<cb = 0 /\ ca = 0, cb > 0 /\ ca = 0, cb = 0 /\ ca > 0,
      ca < cb, ca = cb, ca > cb>>

\* The cases in which each of the six verdicts is the one selected
VerdictCases(cb, ca) ==
    <<cb = 0 /\ ca = 0, cb > 0 /\ ca = 0, cb = 0 /\ ca > 0,
      0 < ca /\ ca < cb, 0 < ca /\ ca = cb, 0 < cb /\ cb < ca>>

\* C8: for every pair of counts (b, a) the verdict is the first of the six
\* whose condition holds, in the order b=0 and a=0, b>0 and a=0, b=0 and
\* a>0, a<b, a=b, a>b; exactly one of the six cases applies to the pair.
C8_VerdictTable ==
    chosen # None =>
        LET conditions == VerdictConditions(b, a)
            first == CHOOSE k \in DOMAIN conditions :
                         /\ conditions[k]
                         /\ \A j \in 1..(k - 1) : ~conditions[j]
            cases == VerdictCases(b, a)
        IN  /\ \E k \in DOMAIN conditions : conditions[k]
            /\ chosen[1][1] = VerdictNames[first]
            /\ Cardinality({k \in DOMAIN cases : cases[k]}) = 1
            /\ cases[first]

\* The pair (5, 5)
C8_Witness ==
    /\ chosen # None
    /\ b = 5
    /\ a = 5
    /\ chosen[1][1] = "No change in failures"

\* C9: every verdict evaluate_patch_effectiveness returns carries, after
\* its leading text, the before count and the after count of its agent in
\* decimal.
C9_VerdictCarriesCounts ==
    op = "evaluate_patch_effectiveness" =>
        \A agent \in DOMAIN evaluation :
            LET cb == Cardinality(PositiveOf(logs_before, agent, CountKeywords))
                ca == Cardinality(PositiveOf(logs_after, agent, CountKeywords))
                v == evaluation[agent]
            IN  /\ v[1] \in Range(VerdictNames)
                /\ Tail(v) = <<" (before: ">> \o int_str(cb)
                                 \o <<", after: ">> \o int_str(ca) \o <<").">>

\* Two failures before, one after: 'Failures reduced (before: 2, after: 1).'
C9_Witness ==
    /\ op = "evaluate_patch_effectiveness"
    /\ logs_before = <<[agent_id |-> "eng", timestamp |-> ts_9,
                        message |-> m_timeout_error],
                       [agent_id |-> "eng", timestamp |-> ts_9,
                        message |-> m_test_failed]>>
    /\ logs_after = <<[agent_id |-> "eng", timestamp |-> ts_9,
                       message |-> m_test_failed]>>
    /\ evaluation["eng"]
           = <<"Failures reduced", " (before: ", "2", ", after: ", "1", ").">>

\* ------------------------------------------------------- missing fields --
\* C10: no method call ends in an exception, whatever fields the records of
\* the batch lack.
C10_NeverRaises == ~raised

\* ------------------------------------------------------ introducer map --
\* The trimmed message of an entry
TrimmedMessage(log) == strip(get(log, "message", <<>>))

\* The places of l whose message the detector accepts and whose trimmed
\* text no earlier such place of l has
FirstOccurrences(l) ==
    {i \in DOMAIN l :
        /\ is_failure(get(l[i], "message", <<>>))
        /\ \A j \in 1..(i - 1) :
               is_failure(get(l[j], "message", <<>>)) =>
                   TrimmedMessage(l[j]) # TrimmedMessage(l[i])}

\* One <<text, agent>> per first occurrence, in the order of l
IntroducersOf(l) ==
    LET f == FirstOccurrences(l)
        nth(k) == CHOOSE i \in f : Cardinality({j \in f : j <= i}) = k
    IN  [k \in 1..Cardinality(f) |->
            <<TrimmedMessage(l[nth(k)]), l[nth(k)]["agent_id"]>>]

\* C11: the introducer map, built over the entries in timestamp-string
\* order, maps every distinct detector-positive message text (trimmed, case
\* kept) to the agent of its first occurrence in that order, whatever agents
\* repeat the text later, and its keys are in first-seen order.
C11_Introducers ==
    (op = "show_failure_introducers" /\ ~raised) =>
        seen = IntroducersOf(StableSorted(arg_logs))

\* The same text from A and then, later in string order, from B; the batch
\* lists B first
C11_Witness ==
    /\ op = "show_failure_introducers"
    /\ ~raised
    /\ arg_logs = <<[agent_id |-> "B", timestamp |-> ts_9,
                     message |-> m_timeout],
                    [agent_id |-> "A", timestamp |-> ts_10,
                     message |-> m_timeout]>>
    /\ seen = << <<m_timeout, "A">> >>

\* C15: every edge map_failure_propagation returns has a target agent other
\* than its source agent.
C15_NoSelfEdge ==
    op = "map_failure_propagation" =>
        \A k \in DOMAIN propagation :
            propagation[k]["target_agent"] # propagation[k]["source_agent"]

\* A failure handed from A to B and back: two edges
C15_Witness ==
    /\ op = "map_failure_propagation"
    /\ Len(propagation) = 2
    /\ propagation[1]["source_agent"] = "A"
    /\ propagation[1]["target_agent"] = "B"
    /\ propagation[2]["source_agent"] = "B"
    /\ propagation[2]["target_agent"] = "A"

\* ------------------------------------------------------- categorisation --
\* The keyword groups in their order of priority, and their categories
CategoryGroups ==
    <<SyntaxKeywords, LogicKeywords, TimeoutKeywords, HallucinationKeywords>>

CategoryNames ==
    <<"Syntax / compile error", "Logic / test failure", "Timeout",
      "LLM hallucination">>

\* The groups that have a keyword in the lowercased message
GroupsIn(msg) ==
    {k \in DOMAIN CategoryGroups : any_in(lower(msg), CategoryGroups[k])}

\* The category of the earliest such group, 'Other' without one
FirstCategory(msg) ==
    IF GroupsIn(msg) = {} THEN "Other"
    ELSE CategoryNames[CHOOSE k \in GroupsIn(msg) :
                           \A j \in GroupsIn(msg) : k <= j]

\* C13: _categorize_failure gives every message one of the five categories:
\* that of the first group, in the order syntax/compile, logic/test, timeout,
\* hallucination, with a keyword in the lowercased message, else 'Other';
\* every entry the analyzer keeps carries this category.
C13_FirstMatchWins ==
    obj = "FailureAnalyzer" =>
        \A i \in DOMAIN logs :
            LET msg == get(logs[i], "message", <<>>)
                agent_id == get(logs[i], "agent_id", "unknown")
            IN  /\ _categorize_failure(msg) = FirstCategory(msg)
                /\ _categorize_failure(msg)
                       \in Range(CategoryNames) \cup {"Other"}
                /\ is_failure(msg) =>
                       with_category(logs[i], FirstCategory(msg))
                           \in Range(dict_get(agent_failures, agent_id, <<>>))

\* 'Syntax Error in assertion failed' has keywords of the first two groups
C13_Witness ==
    /\ obj = "FailureAnalyzer"
    /\ op = "classify_failures"
    /\ logs = <<[agent_id |-> "A", timestamp |-> ts_9,
                 message |-> m_syntax_assert]>>
    /\ GroupsIn(m_syntax_assert) = {1, 2}
    /\ agent_failures
           = << <<"A", <<[agent_id |-> "A", timestamp |-> ts_9,
                          message |-> m_syntax_assert,
                          category |-> "Syntax / compile error"]>> >> >>


\* ------------------------------------------------------ advanced report --

\* The names of the taxonomy, in the priority order of TypeKeywords
TypeNames ==
    <<"timeout", "connection", "resource", "memory", "disk", "exception",
      "crash", "fail", "error">>

TypesIn(msg) == {k \in DOMAIN TypeKeywords : contains(lower(msg), TypeKeywords[k])}

\* The first type of the priority list with its substring in the message
FirstType(msg) ==
    IF TypesIn(msg) = {} THEN "other"
    ELSE TypeNames[CHOOSE k \in TypesIn(msg) : \A j \in TypesIn(msg) : k <= j]

RECURSIVE SumOfCounts(_, _)
SumOfCounts(d, n) == IF n = 0 THEN 0 ELSE SumOfCounts(d, n - 1) + d[n][2]

\* The type counts and the number of distinct texts of the entries of agent in
\* l that the gate kws accepts
TypeCountsHold(l, agent, kws, types, unique) ==
    LET positive == PositiveOf(l, agent, kws)
        texts == {get(l[i], "message", <<>>) : i \in positive}
    IN  /\ \A ty \in Range(TypeNames) \cup {"other"} :
               dict_get(types, ty, 0)
                   = Cardinality({i \in positive :
                         FirstType(get(l[i], "message", <<>>)) = ty})
        /\ \A i \in DOMAIN types : types[i][2] > 0
        /\ SumOfCounts(types, Len(types)) = Cardinality(positive)
        /\ unique = Cardinality(texts)
        /\ unique <= SumOfCounts(types, Len(types))

\* C14: in the advanced report, per agent and per collection, every entry
\* the six-keyword detector accepts is counted once under its first matching
\* type, so the counts add up to the number of detector-positive entries of
\* the agent, and unique_failure_messages is the number of distinct texts
\* among them.
C14_TypeCounts ==
    op = "advanced_evaluation_report" =>
        /\ DOMAIN report = AgentsOf(logs_before) \cup AgentsOf(logs_after)
        /\ \A agent \in DOMAIN report :
            /\ TypeCountsHold(logs_before, agent, GroupKeywords,
                              report[agent].failure_types_before,
                              report[agent].unique_failure_messages_before)
            /\ TypeCountsHold(logs_after, agent, GroupKeywords,
                              report[agent].failure_types_after,
                              report[agent].unique_failure_messages_after)

\* The parsed timestamps of the entries i of l
TimesOf(l, indices) ==
    {parse_time(get(l[i], "timestamp", <<>>))[1] :
        i \in {j \in indices : parse_time(get(l[j], "timestamp", <<>>)) # None}}

\* time_to_recovery of agent when kws is the failure gate
RecoveryOf(l_before, l_after, agent, kws) ==
    LET failures == TimesOf(l_before, PositiveOf(l_before, agent, kws))
        negative == {i \in DOMAIN l_after :
                        /\ get(l_after[i], "agent_id", "unknown") = agent
                        /\ i \notin PositiveOf(l_after, agent, kws)}
    IN  IF failures = {} THEN None
        ELSE LET last_failure_time ==
                     CHOOSE t \in failures :
                         \A u \in failures : ~time_gt(u, t)
                 successes == {t \in TimesOf(l_after, negative) :
                                  time_gt(t, last_failure_time)}
             IN  IF successes = {} THEN None
                 ELSE LET first_success_time ==
                              CHOOSE t \in successes :
                                  \A u \in successes : ~time_gt(t, u)
                      IN  timedelta_str(time_sub(first_success_time,
                                                 last_failure_time))

\* C12: time_to_recovery of an agent is the first success minus the last
\* failure, where the last failure is the latest parsable timestamp of the
\* agent's before entries that the six-keyword detector accepts and the first
\* success is the earliest parsable timestamp after it among the agent's
\* after entries that the detector rejects; it is None when either is
\* missing.
C12_TimeToRecovery ==
    op = "advanced_evaluation_report" =>
        \A agent \in DOMAIN report :
            report[agent].time_to_recovery
                = RecoveryOf(logs_before, logs_after, agent, GroupKeywords)

\* C18: no agent of the advanced report has the type 'other' among its
\* failure types, before or after: an entry that passes the gate of the
\* report has one of the nine named types.
C18_OtherUnreachable ==
    op = "advanced_evaluation_report" =>
        \A agent \in DOMAIN report :
            /\ ~dict_has(report[agent].failure_types_before, "other")
            /\ ~dict_has(report[agent].failure_types_after, "other")
            /\ dict_keys(report[agent].failure_types_before)
                   \subseteq Range(TypeNames)
            /\ dict_keys(report[agent].failure_types_after)
                   \subseteq Range(TypeNames)

\* A 'crash' before and a 'test failed' after are both typed and counted
C18_Witness ==
    /\ op = "advanced_evaluation_report"
    /\ logs_before = <<[agent_id |-> "eng", timestamp |-> ts_T0,
                        message |-> m_crash]>>
    /\ logs_after = <<[agent_id |-> "eng", timestamp |-> ts_T5,
                       message |-> m_test_failed]>>
    /\ report["eng"].failure_types_before = << <<"crash", 1>> >>
    /\ report["eng"].failure_types_after = << <<"fail", 1>> >>

\* ------------------------------------------------ trace handler, manager --

\* The list a reference to a list stands for
Deref(ref) ==
    IF ref[1] = "copy" THEN threads[ref[2]].copy
    ELSE IF ref[1] = "all_logs" THEN threads[ref[2]].all_logs
    ELSE <<>>

\* The dicts of agent_id in a list of get_all_logs
EntriesOf(l, agent_id) ==
    LET of_agent(log) == log.agent_id = agent_id
    IN  SelectSeq(l, of_agent)

\* C16: a list that get_logs, get_agent_logs or get_all_logs has returned
\* holds, for each agent read, the entries the handler's buffer held at one
\* instant, the end of the read: all of them, in the order emitted, each with
\* all its fields; and the list is still as it was returned, whatever was
\* emitted or cleared since.
C16_ConsistentCopy ==
    \A t \in Threads :
        LET me == threads[t]
        IN  me.ret # None =>
                /\ Deref(me.ret[1]) = me.handed
                /\ me.ret[1][1] = "copy" => me.handed = me.expected[1][2]
                /\ me.ret[1][1] = "all_logs" =>
                       /\ \A i \in DOMAIN me.expected :
                              EntriesOf(me.handed, me.expected[i][1])
                                  = all_logs_of(me.expected[i][1],
                                                me.expected[i][2])
                       /\ \A i \in DOMAIN me.handed :
                              \E j \in DOMAIN me.expected :
                                  me.handed[i].agent_id = me.expected[j][1]

\* The reader holds both entries of A's handler, read while the producer was
\* waiting to clear it; the handler has been cleared since
C16_Witness ==
    /\ threads["main"].op = "get_all_logs"
    /\ threads["main"].ret # None
    /\ Len(threads["main"].handed) = 2
    /\ Len(handlers) = 1
    /\ handlers[1].logs = <<>>
    /\ clears = 1

\* C17: what get_agent_logs and get_all_logs return for an agent id are the
\* entries emitted, since its last clear, to the handler registered last for
\* the id, and nothing for an id that was never registered; no entry of an
\* earlier handler of the id is among them.
C17_LatestHandlerVisible ==
    \A t \in Threads :
        LET me == threads[t]
            visible_of(agent_id) ==
                me.visible[CHOOSE i \in DOMAIN me.visible :
                               me.visible[i][1] = agent_id][2]
            read(agent_id) ==
                \E i \in DOMAIN me.visible : me.visible[i][1] = agent_id
        IN  /\ me.ret # None /\ me.op = "get_agent_logs" =>
                IF me.agent_id \in me.registered
                THEN /\ read(me.agent_id)
                     /\ Deref(me.ret[1]) = visible_of(me.agent_id)
                ELSE Deref(me.ret[1]) = <<>>
            /\ me.ret # None /\ me.op = "get_all_logs" =>
                \A agent_id \in AgentIds :
                    IF agent_id \in me.registered
                    THEN /\ read(agent_id)
                         /\ EntriesOf(Deref(me.ret[1]), agent_id)
                                = all_logs_of(agent_id, visible_of(agent_id))
                    ELSE EntriesOf(Deref(me.ret[1]), agent_id) = <<>>

\* A was registered twice; the first handler was given an entry, which is
\* still in its buffer, and get_agent_logs('A') returned the one entry given
\* to the second handler
C17_Witness ==
    /\ Len(handlers) = 2
    /\ handlers[1].agent_id = "A"
    /\ handlers[2].agent_id = "A"
    /\ Len(handlers[1].logs) = 1
    /\ threads["main"].op = "get_agent_logs"
    /\ threads["main"].agent_id = "A"
    /\ threads["main"].ret # None
    /\ Len(threads["main"].handed) = 1
    /\ threads["main"].handed = handlers[2].logs
====
